---- MODULE Spec2Model ----
(***************************************************************************)
(* The EDBG (JTAGICE3 over CMSIS-DAP) driver of probe-rs:                  *)
(* probe-rs/src/probe/edbg/mod.rs.  One EDBG value, its sequence counter,  *)
(* the frames it puts on the wire, the reports the probe hands back, and   *)
(* the operations built on send_command.                                   *)
(***************************************************************************)
EXTENDS Integers, Sequences, FiniteSets, TLC

VARIABLES
    sequence_number,  \* EDBG.sequence_number (u16)
    pc,               \* where the driver is: "idle", "send", "polling", "aborted", "dropped"
    op,               \* the public operation in progress ("none" when idle)
    step,             \* which command of that operation is being exchanged (1..3)
    wire,             \* every command frame handed to the transport, in order
    acked,            \* per frame of wire: "pending", "ok" (validated response) or "failed"
    probe_frame,      \* the whole response frame the probe produced for the last command
    reports,          \* the AVR RSP reports the probe still has to hand over
    empty_polls,      \* reports with fragment_info = 0 seen by the current poll loop
    sc_result,        \* what the last send_command call returned
    response,         \* what the last parse_response call returned
    result,           \* what the last public operation returned
    attached,         \* the controller's state (kept by the caller of attach, as the
                      \* design describes it): TRUE once attach() has returned Ok
    calls,            \* public operations invoked so far
    arg,              \* the argument of the last call: the wire protocol select_protocol
                      \* was asked for ("none" for the operations without one)
    target_halts      \* the target: does it report halted after the last Stop

vars == <<sequence_number, pc, op, step, wire, acked, probe_frame, reports,
          empty_polls, sc_result, response, result, attached, target_halts, calls,
          arg>>

----------------------------------------------------------------------------
(* Bounds of the model *)

MaxCalls == 2         \* public operations invoked in one session
MaxEmptyPolls == 1    \* empty reports one poll loop sees before something else happens
WrapStart == 65534    \* counter value of a long-running session (SpecWrap)

----------------------------------------------------------------------------
(* Program constants *)

U16 == 65536
EDBG_SOF == 14

\* enum SubProtocols
Discovery == 0
Housekeeping == 1
AVRISP == 17
AVR8Generic == 18
AVR32Generic == 19
TPI == 20
EDBGCtrl == 32
SubProtocols == {Discovery, Housekeeping, AVRISP, AVR8Generic, AVR32Generic, TPI, EDBGCtrl}

CmdQuery == 0
RspDiscoveryList == 129
HousekeepingStartSession == 16
HousekeepingEndSession == 17

\* mod avr8generic (declared outside the files at hand): Avr8GenericCommands,
\* Avr8GenericResponses, Avr8GenericFailureCodes
CmdSet == 1
CmdActivatePhysical == 16
CmdAttach == 19
CmdStop == 49
CmdPcRead == 53
CmdHwBreakClear == 65
RspStatusOk == 128
RspList == 129
RspPc == 131
RspData == 132
RspFailed == 160
Avr8GenericResponses == {RspStatusOk, RspList, RspPc, RspData, RspFailed}
FailureDwPhyError == 16
FailureUnknown == 255
Avr8GenericFailureCodes == {FailureDwPhyError, FailureUnknown}
ContextConfig == 0
ParamVariant == 0
VariantUpdi == 5

----------------------------------------------------------------------------
(* Byte-level helpers *)

\* Rust v[a..b] on a Vec: 0-based, end exclusive
Slice(s, a, b) == SubSeq(s, a + 1, b)

\* pread_with::<u16>(off, LE)
PreadU16(s, off) == s[off + 1] + 256 * s[off + 2]

\* pread_with::<u32>(off, LE)
PreadU32(s, off) == s[off + 1] + 256 * s[off + 2] + 65536 * s[off + 3] + 16777216 * s[off + 4]

\* mutant of Packet: the sequence number written most significant byte first
Packet_be(seq, sub, command_packet) ==
    <<EDBG_SOF, 0, seq \div 256, seq % 256, sub>> \o command_packet

\* the command frame send_command builds
Packet(seq, sub, command_packet) ==
    <<EDBG_SOF, 0, seq % 256, seq \div 256, sub>> \o command_packet

\* a response frame as the probe builds it: SOF, sequence (LE), sub-protocol, payload
RspFrame(sof, seq, sub, payload) ==
    <<sof, seq % 256, seq \div 256, sub>> \o payload

----------------------------------------------------------------------------
(* Results: [kind, val, why]; val is a byte sequence (or <<pc>>), why names an
   error or the panic message *)

NoResult == [kind |-> "None", val |-> <<>>, why |-> ""]
Ok(v) == [kind |-> "Ok", val |-> v, why |-> ""]
Err(w) == [kind |-> "Err", val |-> <<>>, why |-> w]
Panic(w) == [kind |-> "Panic", val |-> <<>>, why |-> w]

\* Avr8GenericResponse values: [tag, val]
NoResponse == [tag |-> "None", val |-> <<>>]
Rsp(t, v) == [tag |-> t, val |-> v]

----------------------------------------------------------------------------
(* CoreDebugCodec *)

\* Avr8GenericResponse::parse_response: the parsed response, or the panic it ends in
parse_response(r) ==
    IF Len(r) = 0 THEN Rsp("Panic", <<>>)                       \* response[0]
    ELSE IF r[1] \notin Avr8GenericResponses THEN Rsp("Panic", <<>>)   \* from_u8(..).unwrap()
    ELSE IF r[1] = RspStatusOk THEN Rsp("Ok", <<>>)
    ELSE IF r[1] = RspList THEN
        IF Len(r) < 2 THEN Rsp("Panic", <<>>)                   \* response[2..]
        ELSE Rsp("List", Slice(r, 2, Len(r)))
    ELSE IF r[1] = RspData THEN
        IF r[Len(r)] = 0 THEN
            IF Len(r) - 1 < 2 THEN Rsp("Panic", <<>>)           \* response[2..len - 1]
            ELSE Rsp("Data", Slice(r, 2, Len(r) - 1))
        ELSE Rsp("Failed", <<FailureUnknown>>)
    ELSE IF r[1] = RspPc THEN
        IF Len(r) < 6 THEN Rsp("Panic", <<>>)                   \* expect("Unable to read PC")
        ELSE Rsp("Pc", <<PreadU32(r, 2)>>)
    ELSE \* RspFailed
        IF Len(r) < 3 THEN Rsp("Panic", <<>>)                   \* response[2]
        ELSE IF r[3] \notin Avr8GenericFailureCodes THEN Rsp("Panic", <<>>)
        ELSE Rsp("Failed", <<r[3]>>)

\* the body of discover_protocols after query() returned rsp
discover_parse(rsp) ==
    IF Len(rsp) = 0 THEN Panic("index out of bounds")           \* rsp[0]
    ELSE IF rsp[1] = RspDiscoveryList THEN
        IF Len(rsp) < 2 THEN Panic("slice index out of range")  \* rsp[2..]
        ELSE IF \E i \in 3..Len(rsp) : rsp[i] \notin SubProtocols
             THEN Panic("unwrap on None")                       \* from_u8(*p).unwrap()
        ELSE Ok(Slice(rsp, 2, Len(rsp)))
    ELSE Panic("not implemented: RSP discovery did not return list")

----------------------------------------------------------------------------
(* PacketCodec: the receive side of send_command *)

\* mutant of seq_increment: the counter is never advanced
seq_increment_stuck(seq, overflow_checks) == [seq |-> seq, panics |-> FALSE]

\* sequence_number += 1 on a u16: wraps in a build without overflow checks,
\* panics in a build with them (the default of a debug build)
seq_increment(seq, overflow_checks) ==
    IF seq + 1 < U16 THEN [seq |-> seq + 1, panics |-> FALSE]
    ELSE IF overflow_checks THEN [seq |-> seq, panics |-> TRUE]
    ELSE [seq |-> (seq + 1) % U16, panics |-> FALSE]

\* TRUE when the packet passes both checks of send_command
rsp_valid(p, seq) ==
    /\ Len(p) >= 3
    /\ p[1] = EDBG_SOF
    /\ PreadU16(p, 1) = seq

\* send_command from the first non-empty report on: [res, seq]
send_command_recv(p, seq, overflow_checks) ==
    IF Len(p) = 0 THEN [res |-> Panic("index out of bounds"), seq |-> seq]
    ELSE IF p[1] # EDBG_SOF THEN [res |-> Panic("Wrong SOF byte in AVR RSP"), seq |-> seq]
    ELSE IF Len(p) < 3 THEN [res |-> Panic("Failed to read buffer"), seq |-> seq]
    ELSE IF PreadU16(p, 1) # seq
         THEN [res |-> Panic("Wrong sequence number in AVR RSP"), seq |-> seq]
    ELSE LET inc == seq_increment(seq, overflow_checks) IN
         IF inc.panics THEN [res |-> Panic("attempt to add with overflow"), seq |-> inc.seq]
         ELSE IF Len(p) < 4 THEN [res |-> Panic("drain range out of bounds"), seq |-> inc.seq]
         ELSE [res |-> Ok(Slice(p, 4, Len(p))), seq |-> inc.seq]

----------------------------------------------------------------------------
(* The operations and the commands each one exchanges *)

Operations == {"new_from_selector", "attach", "halt", "clear_breakpoint", "select_protocol"}

\* enum AvrWireProtocol
AvrWireProtocol == {"Jtag", "DebugWire", "Pdi", "Updi"}

\* the argument an operation is called with
Arguments(o) == IF o = "select_protocol" THEN AvrWireProtocol ELSE {"none"}

\* number of send_command calls an operation makes when nothing fails
NumSteps(o) ==
    CASE o = "new_from_selector" -> 2
      [] o = "attach" -> 3
      [] o = "halt" -> 2
      [] OTHER -> 1

\* send_command_avr8_generic: cmd, version, data; answered through parse_response
Avr8Command(cmd, version, data) ==
    [sub |-> AVR8Generic, bytes |-> <<cmd, version>> \o data, avr8 |-> TRUE]

\* query(): {0, 0, query_context}
query(sub_protocol, query_context) ==
    [sub |-> sub_protocol, bytes |-> <<0, 0, query_context>>, avr8 |-> FALSE]

housekeeping_start_session ==
    [sub |-> Housekeeping, bytes |-> <<HousekeepingStartSession, 0>>, avr8 |-> FALSE]

\* data.len() as u8
avr8generic_set(context, address, data) ==
    [sub |-> AVR8Generic,
     bytes |-> <<CmdSet, 0, context, address, Len(data) % 256>> \o data,
     avr8 |-> FALSE]

\* select_protocol(protocol): the argument is not used
select_protocol(requested) ==
    avr8generic_set(ContextConfig, ParamVariant, <<VariantUpdi>>)

\* the st-th command of operation o
Command(o, st) ==
    CASE o = "new_from_selector" /\ st = 1 -> query(Discovery, CmdQuery)
      [] o = "new_from_selector" /\ st = 2 -> housekeeping_start_session
      [] o = "attach" /\ st = 1 -> housekeeping_start_session
      [] o = "attach" /\ st = 2 -> Avr8Command(CmdActivatePhysical, 0, <<0>>)
      [] o = "attach" /\ st = 3 -> Avr8Command(CmdAttach, 0, <<0>>)
      [] o = "halt" /\ st = 1 -> Avr8Command(CmdStop, 0, <<1>>)
      [] o = "halt" /\ st = 2 -> Avr8Command(CmdPcRead, 0, <<>>)
      [] o = "clear_breakpoint" -> Avr8Command(CmdHwBreakClear, 0, <<0>>)
      [] OTHER -> select_protocol(arg)

----------------------------------------------------------------------------
(* The probe: what it may answer to a command frame *)

MaxFirstFragment == 1   \* payload bytes in the first report of a split response

CorruptSof == EDBG_SOF + 1
UnknownByte == 85

\* sub-protocol payloads the probe answers with
RspPayloads ==
    { <<RspStatusOk>>,
      <<RspDiscoveryList, 0, Housekeeping, AVR8Generic>>,
      <<RspData, 0, 170, 187, 0>>,
      <<RspPc, 0, 16, 0, 0, 0>>,
      <<RspFailed, 0, FailureDwPhyError>>,
      <<UnknownByte, 0>> }

\* a sub-protocol other than the one a command was sent to
ForeignSub(sub) == IF sub = AVR8Generic THEN Housekeeping ELSE AVR8Generic

\* the response frames the probe may produce for a command with this sequence number
ProbeFrames(seq, sub) ==
    { RspFrame(EDBG_SOF, seq, sub, p) : p \in RspPayloads }
      \cup { RspFrame(CorruptSof, seq, sub, <<RspStatusOk>>),
             RspFrame(EDBG_SOF, seq, ForeignSub(sub), <<RspStatusOk>>),
             RspFrame(EDBG_SOF, (seq + U16 - 1) % U16, sub, <<RspStatusOk>>),
             <<EDBG_SOF, seq % 256, seq \div 256>> }

\* AvrRSPResponse: fragment_info = (fragment number << 4) | number of fragments
Report(n, of, bytes) == [fragment_info |-> 16 * n + of, command_packet |-> bytes]

\* the ways the probe may hand a response frame over: in one report, or in two
Fragmentations(f) ==
    { <<Report(1, 1, f)>> }
      \cup { <<Report(1, 2, SubSeq(f, 1, k)), Report(2, 2, SubSeq(f, k + 1, Len(f)))>> :
             k \in { j \in 5..(4 + MaxFirstFragment) : j < Len(f) } }

----------------------------------------------------------------------------
(* The state machine *)

\* new_from_device, before any operation
Init ==
    /\ sequence_number = 0
    /\ pc = "idle"
    /\ op = "none"
    /\ step = 0
    /\ wire = <<>>
    /\ acked = <<>>
    /\ probe_frame = <<>>
    /\ reports = <<>>
    /\ empty_polls = 0
    /\ sc_result = NoResult
    /\ response = NoResponse
    /\ result = NoResult
    /\ attached = FALSE
    /\ target_halts = FALSE
    /\ calls = 0
    /\ arg = "none"

\* the status of the last frame becomes s
Ack(s) == [acked EXCEPT ![Len(acked)] = s]

\* what the operation does with the value decoded from a command's answer, once
\* send_command has returned sc and the answer has been decoded to r:
\* "next" (go on with the next command) or the value the operation returns
Outcome(o, st, sc, r) ==
    IF sc.kind = "Panic" THEN sc
    ELSE IF r.tag = "Panic" THEN Panic("decode")
    ELSE IF o = "halt" /\ st = 1 THEN Ok(<<>>)              \* the result of Stop is dropped
    ELSE IF sc.kind = "Err" THEN sc                          \* the ? operator
    ELSE IF o = "halt" /\ st = 2 THEN
        IF r.tag = "Pc" THEN Ok(r.val) ELSE Panic("Unable to read Program Counter")
    ELSE Ok(<<>>)

\* the value decoded from the payload send_command returned
Decode(o, st, sc) ==
    IF sc.kind # "Ok" THEN NoResponse
    ELSE IF Command(o, st).avr8 THEN parse_response(sc.val)
    ELSE IF o = "new_from_selector" /\ st = 1 THEN
        LET d == discover_parse(sc.val) IN
        IF d.kind = "Ok" THEN Rsp("Protocols", d.val) ELSE Rsp("Panic", <<>>)
    ELSE NoResponse

\* send_command, called for command st of operation o, has returned sc: the
\* operation runs on to its next command or returns
Return(o, st, sc) ==
    LET r == Decode(o, st, sc)
        out == Outcome(o, st, sc, r)
        more == out.kind = "Ok" /\ st < NumSteps(o)
    IN  /\ sc_result' = sc
        /\ response' = r
        /\ op' = o
        /\ step' = IF more THEN st + 1 ELSE st
        /\ pc' = IF more THEN "send"
                 ELSE IF out.kind = "Panic" THEN "aborted"
                 ELSE IF out.kind = "Err" /\ o = "new_from_selector" THEN "dropped"
                 ELSE "idle"
        /\ result' = IF more THEN NoResult ELSE out
        /\ attached' = (attached \/ (o = "attach" /\ ~more /\ out.kind = "Ok"))

\* mutant of Transmit: send_command returns as soon as the frame is out, without
\* polling for the response
Transmit_no_wait(o, st) ==
    /\ LET c == Command(o, st)
       IN  /\ wire' = Append(wire, Packet(sequence_number, c.sub, c.bytes))
           /\ acked' = Append(acked, "pending")
    /\ Return(o, st, Ok(<<RspStatusOk>>))
    /\ UNCHANGED <<sequence_number, probe_frame, reports, empty_polls, target_halts>>

\* send_command up to the poll loop: the frame goes out; the probe drops what it
\* still held of its previous answer
Transmit(o, st) ==
    /\ LET c == Command(o, st)
           packet == Packet(sequence_number, c.sub, c.bytes)
       IN  /\ wire' = Append(wire, packet)
           /\ acked' = Append(acked, "pending")
           /\ probe_frame' = <<>>
           /\ reports' = <<>>
           /\ IF c.avr8 /\ c.bytes[1] = CmdStop
              THEN \E h \in BOOLEAN : target_halts' = h
              ELSE UNCHANGED target_halts
    /\ pc' = "polling"
    /\ op' = o
    /\ step' = st
    /\ empty_polls' = 0
    /\ sc_result' = NoResult
    /\ response' = NoResponse
    /\ result' = NoResult
    /\ UNCHANGED <<sequence_number, attached>>

\* the transport fails to send the frame: send_command returns the error
TransmitError(o, st) ==
    /\ Return(o, st, Err("Transport"))
    /\ UNCHANGED <<sequence_number, wire, acked, probe_frame, reports, empty_polls,
                   target_halts>>

\* the caller invokes a public operation, which sends its first command
Call(o) ==
    /\ pc = "idle"
    /\ calls < MaxCalls
    /\ calls' = calls + 1
    /\ o = "new_from_selector" => (op = "none")
    /\ \E requested \in Arguments(o) : arg' = requested
    /\ Transmit(o, 1) \/ TransmitError(o, 1)

\* the operation in progress sends its next command
SendFrame ==
    /\ UNCHANGED <<calls, arg>>
    /\ pc = "send"
    /\ Transmit(op, step)

SendError ==
    /\ UNCHANGED <<calls, arg>>
    /\ pc = "send"
    /\ TransmitError(op, step)

\* mutant of PollEmpty: the poll loop has a deadline of MaxEmptyPolls empty reports
PollEmpty_deadline ==
    /\ UNCHANGED <<calls, arg>>
    /\ pc = "polling"
    /\ empty_polls < MaxEmptyPolls
    /\ empty_polls' = empty_polls + 1
    /\ acked' = Ack("failed")
    /\ Return(op, step, Err("Timeout"))
    /\ UNCHANGED <<sequence_number, wire, probe_frame, reports, target_halts>>

\* a poll returns a report with fragment_info = 0: the loop goes round.  The
\* loop keeps no count; empty_polls records how many were seen, up to MaxEmptyPolls
PollEmpty ==
    /\ UNCHANGED <<calls, arg>>
    /\ pc = "polling"
    /\ empty_polls' = IF empty_polls < MaxEmptyPolls THEN empty_polls + 1 ELSE empty_polls
    /\ UNCHANGED <<sequence_number, pc, op, step, wire, acked, probe_frame, reports,
                   sc_result, response, result, attached, target_halts>>

\* mutant of PollError: a failed poll makes send_command send the frame again
PollError_retry ==
    /\ UNCHANGED <<calls, arg>>
    /\ pc = "polling"
    /\ wire' = Append(wire, wire[Len(wire)])
    /\ acked' = Append(Ack("failed"), "pending")
    /\ UNCHANGED <<sequence_number, pc, op, step, probe_frame, reports, empty_polls,
                   sc_result, response, result, attached, target_halts>>

\* a poll fails in the transport: send_command returns the error
PollError ==
    /\ UNCHANGED <<calls, arg>>
    /\ pc = "polling"
    /\ acked' = Ack("failed")
    /\ Return(op, step, Err("Transport"))
    /\ UNCHANGED <<sequence_number, wire, probe_frame, reports, empty_polls, target_halts>>

\* the probe answers with frame f, handed over as the reports rs, and a poll
\* returns the first of them (fragment_info # 0): the rest of send_command
PollReport ==
    /\ UNCHANGED <<calls, arg>>
    /\ pc = "polling"
    /\ \E f \in ProbeFrames(sequence_number, Command(op, step).sub) :
       \E rs \in Fragmentations(f) :
       \E overflow_checks \in BOOLEAN :
         LET rsp == Head(rs)
             got == send_command_recv(rsp.command_packet, sequence_number, overflow_checks)
         IN  /\ rsp.fragment_info # 0
             /\ probe_frame' = f
             /\ reports' = Tail(rs)
             /\ sequence_number' = got.seq
             /\ acked' = Ack(IF rsp_valid(rsp.command_packet, sequence_number)
                             THEN "ok" ELSE "failed")
             /\ Return(op, step, got.res)
    /\ UNCHANGED <<wire, empty_polls, target_halts>>

Next ==
    \/ \E o \in Operations : Call(o)
    \/ SendFrame
    \/ SendError
    \/ PollEmpty
    \/ PollError
    \/ PollReport

Spec == Init /\ [][Next]_vars

\* the transport does deliver: a poll loop that is running is not answered with
\* empty reports for ever
SpecFair == Spec /\ WF_vars(PollReport \/ PollError)

\* a long-running session: WrapStart round trips have been completed (or the
\* public field sequence_number has been set); wire and acked record the frames
\* sent from here on
InitWrap ==
    /\ sequence_number = WrapStart
    /\ pc = "idle"
    /\ op = "none"
    /\ step = 0
    /\ wire = <<>>
    /\ acked = <<>>
    /\ probe_frame = <<>>
    /\ reports = <<>>
    /\ empty_polls = 0
    /\ sc_result = NoResult
    /\ response = NoResponse
    /\ result = NoResult
    /\ attached = FALSE
    /\ target_halts = FALSE
    /\ calls = 0
    /\ arg = "none"

SpecWrap == InitWrap /\ [][Next]_vars

----------------------------------------------------------------------------
(* The decoders on their own: every short payload send_command may return *)

MaxRspBody == 5    \* bytes after the leading byte of a decoded payload

CodecTags == Avr8GenericResponses \cup {UnknownByte}
CodecBytes == {0, Housekeeping, FailureDwPhyError, AVR8Generic, UnknownByte}

CodecInputs ==
    { <<>> } \cup
    { <<t>> \o b : t \in CodecTags,
                   b \in UNION { [1..n -> CodecBytes] : n \in 0..MaxRspBody } }

\* send_command has returned Ok(input) and nothing has decoded it yet
InitCodec ==
    /\ sequence_number = 1
    /\ pc = "codec"
    /\ op = "none"
    /\ step = 1
    /\ wire = <<>>
    /\ acked = <<>>
    /\ probe_frame = <<>>
    /\ reports = <<>>
    /\ empty_polls = 0
    /\ \E input \in CodecInputs : sc_result = Ok(input)
    /\ response = NoResponse
    /\ result = NoResult
    /\ attached = FALSE
    /\ target_halts = FALSE
    /\ calls = 0
    /\ arg = "none"

\* send_command_avr8_generic maps the payload through parse_response
ParseResponse ==
    /\ pc = "codec"
    /\ op' = "parse_response"
    /\ response' = parse_response(sc_result.val)
    /\ pc' = IF response'.tag = "Panic" THEN "aborted" ELSE "decoded"
    /\ UNCHANGED <<sequence_number, step, wire, acked, probe_frame, reports, empty_polls,
                   sc_result, result, attached, target_halts, calls, arg>>

\* discover_protocols maps the payload of its query to a list of sub-protocols
DiscoverProtocols ==
    /\ pc = "codec"
    /\ op' = "discover_protocols"
    /\ response' = Decode("new_from_selector", 1, sc_result)
    /\ pc' = IF response'.tag = "Panic" THEN "aborted" ELSE "decoded"
    /\ UNCHANGED <<sequence_number, step, wire, acked, probe_frame, reports, empty_polls,
                   sc_result, result, attached, target_halts, calls, arg>>

NextCodec ==
    \/ ParseResponse
    \/ DiscoverProtocols

SpecCodec == InitCodec /\ [][NextCodec]_vars

----------------------------------------------------------------------------
(* The framing on its own: a valid response frame taken through the receive
   side of send_command, and its payload framed again by the send side *)

FrameSeqs == {0, 255, 256, WrapStart, U16 - 1}
FramePayloads == RspPayloads \cup {<<>>}

\* the probe has built a valid response frame for the counter's value; a poll
\* has returned it whole
InitFrame ==
    /\ \E seq \in FrameSeqs, sub \in SubProtocols, payload \in FramePayloads :
         /\ sequence_number = seq
         /\ probe_frame = RspFrame(EDBG_SOF, seq, sub, payload)
    /\ pc = "frame"
    /\ op = "none"
    /\ step = 1
    /\ wire = <<>>
    /\ acked = <<>>
    /\ reports = <<>>
    /\ empty_polls = 0
    /\ sc_result = NoResult
    /\ response = NoResponse
    /\ result = NoResult
    /\ attached = FALSE
    /\ target_halts = FALSE
    /\ calls = 0
    /\ arg = "none"

\* send_command from the SOF check on
DecodeFrame ==
    /\ pc = "frame"
    /\ \E overflow_checks \in BOOLEAN :
         LET got == send_command_recv(probe_frame, sequence_number, overflow_checks)
         IN  /\ sc_result' = got.res
             /\ sequence_number' = got.seq
             /\ pc' = IF got.res.kind = "Panic" THEN "aborted" ELSE "decoded"
    /\ op' = "decode"
    /\ UNCHANGED <<step, wire, acked, probe_frame, reports, empty_polls, response, result,
                   attached, target_halts, calls, arg>>

\* the payload that came out is framed by send_command's packet construction,
\* with the sequence number and sub-protocol of the frame it came from
EncodeAgain ==
    /\ pc = "decoded"
    /\ op = "decode"
    /\ wire' = <<Packet(PreadU16(probe_frame, 1), probe_frame[4], sc_result.val)>>
    /\ pc' = "encoded"
    /\ UNCHANGED <<sequence_number, op, step, acked, probe_frame, reports, empty_polls,
                   sc_result, response, result, attached, target_halts, calls, arg>>

NextFrame ==
    \/ DecodeFrame
    \/ EncodeAgain

SpecFrame == InitFrame /\ [][NextFrame]_vars

----------------------------------------------------------------------------
(* avr8generic_set on its own: every context, address and data it may be given *)

U8 == 256
ContextPhysical == 1

SetContexts == {ContextConfig, ContextPhysical}
SetAddresses == {0, 1, U8 - 1}
SetDataLens == {0, 1, U8 - 1, U8, U8 + 1}
SetDataFirst == {0, 7, 200}

\* n bytes, no two neighbours equal, starting after first
SetData(n, first) == [i \in 1..n |-> (first + i) % U8]

SetInputs ==
    { [context |-> c, address |-> a, data |-> SetData(n, first)] :
        c \in SetContexts, a \in SetAddresses, n \in SetDataLens, first \in SetDataFirst }

\* avr8generic_set is about to be called with arg
InitSet ==
    /\ arg \in SetInputs
    /\ sequence_number = 0
    /\ pc = "set"
    /\ op = "none"
    /\ step = 1
    /\ wire = <<>>
    /\ acked = <<>>
    /\ probe_frame = <<>>
    /\ reports = <<>>
    /\ empty_polls = 0
    /\ sc_result = NoResult
    /\ response = NoResponse
    /\ result = NoResult
    /\ attached = FALSE
    /\ target_halts = FALSE
    /\ calls = 0

\* avr8generic_set builds its payload and send_command puts the frame on the wire
SetCommand ==
    /\ pc = "set"
    /\ LET c == avr8generic_set(arg.context, arg.address, arg.data)
       IN  /\ wire' = <<Packet(sequence_number, c.sub, c.bytes)>>
           /\ acked' = <<"pending">>
    /\ pc' = "polling"
    /\ op' = "avr8generic_set"
    /\ UNCHANGED <<sequence_number, step, probe_frame, reports, empty_polls, sc_result,
                   response, result, attached, target_halts, calls, arg>>

NextSet == SetCommand

SpecSet == InitSet /\ [][NextSet]_vars

----------------------------------------------------------------------------
(* Properties *)

\* the sequence number a command frame carries (bytes 2..3, little-endian)
FrameSeq(f) == PreadU16(f, 2)

\* the sequence number a response frame carries (bytes 1..2, little-endian)
RspSeq(f) == PreadU16(f, 1)

\* this step is the poll that takes the probe's answer
AnswerTaken == pc = "polling" /\ probe_frame' # <<>>

\* C1: every round trip whose response passes both checks leaves the counter at
\* (its previous value + 1) mod 65536, also the one made with the counter at 65535.
C1_CounterAdvancesMod ==
    [][(AnswerTaken /\ rsp_valid(probe_frame', sequence_number) /\ Len(probe_frame') >= 4)
         => (sequence_number' = (sequence_number + 1) % U16 /\ sc_result'.kind = "Ok")]_vars

\* C2 as claimed: no two command frames of a session carry the same sequence number.
C2_NoSequenceReuse ==
    \A i, j \in DOMAIN wire : i < j => FrameSeq(wire[i]) # FrameSeq(wire[j])

\* C2 amended: each frame carries the number of the frame before it, plus one
\* exactly when that frame's response was validated; so two frames share a number
\* only when the exchange of the earlier one failed.
C2_ReuseOnlyAfterFailure ==
    \A i \in DOMAIN wire :
        i < Len(wire) =>
            FrameSeq(wire[i + 1]) = FrameSeq(wire[i]) + (IF acked[i] = "ok" THEN 1 ELSE 0)

\* C2 witness: a failed exchange, then a frame with the same number whose
\* response is validated.
C2_Witness ==
    \E i \in DOMAIN wire :
        /\ i < Len(wire)
        /\ acked[i] = "failed"
        /\ acked[i + 1] = "ok"
        /\ FrameSeq(wire[i + 1]) = FrameSeq(wire[i])

\* C3: a response whose leading byte is not the start-of-frame sentinel makes
\* send_command return a ProtocolViolation error, the counter unchanged.
C3_BadSofIsError ==
    [][(AnswerTaken /\ probe_frame'[1] # EDBG_SOF)
         => (sc_result' = Err("ProtocolViolation") /\ sequence_number' = sequence_number)]_vars

\* C4: send_command returns a payload only for a response carrying the sequence
\* number just sent; any other number gives a ProtocolViolation error and leaves
\* the counter alone.
C4_SequenceCorrelation ==
    [][AnswerTaken =>
         /\ sc_result'.kind = "Ok" => RspSeq(probe_frame') = sequence_number
         /\ (probe_frame'[1] = EDBG_SOF /\ RspSeq(probe_frame') # sequence_number)
              => (sc_result' = Err("ProtocolViolation") /\ sequence_number' = sequence_number)
      ]_vars

\* C5 as claimed: every frame that is followed by another one has had its
\* validated response received.
C5_ResponseBeforeNextFrame ==
    \A i \in DOMAIN wire : i < Len(wire) => acked[i] = "ok"

\* C5 amended: every frame that is followed by another one has had its exchange
\* ended, by a validated response or by an error send_command returned; only the
\* last frame sent can be waiting for its response.
C5_OneOutstanding ==
    \A i \in DOMAIN wire : i < Len(wire) => acked[i] \in {"ok", "failed"}

\* C5 witness: attach has sent its third command, the first two answered.
C5_Witness ==
    /\ op = "attach"
    /\ pc = "polling"
    /\ Len(wire) = 3
    /\ acked = <<"ok", "ok", "pending">>

\* C6: the payload send_command returns is the whole response of the probe, all
\* its fragments in order, without the 4-byte envelope.
C6_Reassembled ==
    sc_result.kind = "Ok" => sc_result.val = Slice(probe_frame, 4, Len(probe_frame))

\* C7: when a command of attach fails (transport error, or a Failed response of
\* the probe) attach sends nothing more and returns an error, the controller
\* staying as it was; otherwise it goes on to the next of its three commands.
C7_AttachStopsOnFailure ==
    [][(op = "attach" /\ pc = "polling" /\ pc' # "polling" /\ sc_result'.kind # "Panic"
          /\ response'.tag # "Panic")
         => IF sc_result'.kind = "Err" \/ response'.tag = "Failed"
            THEN pc' = "idle" /\ result'.kind = "Err" /\ attached' = attached
            ELSE IF step < 3 THEN pc' = "send" /\ step' = step + 1
            ELSE pc' = "idle" /\ result'.kind = "Ok" /\ attached'
      ]_vars

\* C8: halt against a target that never reports halted, both of its exchanges
\* answered, returns a Timeout error.
C8_HaltTimesOut ==
    (op = "halt" /\ pc \in {"idle", "aborted"} /\ step = 2
       /\ Len(wire) >= 2 /\ wire[Len(wire) - 1][6] = CmdStop
       /\ acked[Len(acked) - 1] = "ok" /\ acked[Len(acked)] = "ok"
       /\ response.tag = "Pc" /\ ~target_halts)
      => result = Err("Timeout")

\* every id byte of a discovery payload is a known sub-protocol
KnownIds(r) == \A i \in 3..Len(r) : r[i] \in SubProtocols

\* C9: a discovery payload led by the list tag gives the bytes from offset 2 on
\* as sub-protocol ids, in order; the empty list when there are none.
C9_DiscoveryList ==
    (op = "discover_protocols" /\ Len(sc_result.val) >= 1
       /\ sc_result.val[1] = RspDiscoveryList /\ KnownIds(sc_result.val))
      => response = Rsp("Protocols", SubSeq(sc_result.val, 3, Len(sc_result.val)))

\* C10: a response led by the Data tag gives Data(bytes[2 .. len-1]) when its last
\* byte is 0 and Failed(Unknown) otherwise, whatever its length.
C10_DataResponse ==
    (op = "parse_response" /\ Len(sc_result.val) >= 1 /\ sc_result.val[1] = RspData)
      => response = IF sc_result.val[Len(sc_result.val)] = 0
                    THEN Rsp("Data", SubSeq(sc_result.val, 3, Len(sc_result.val) - 1))
                    ELSE Rsp("Failed", <<FailureUnknown>>)

\* C11: every response led by the ProgramCounter tag gives ProgramCounter(v),
\* v = bytes[2] + 256*bytes[3] + 65536*bytes[4] + 16777216*bytes[5].
C11_ProgramCounter ==
    (op = "parse_response" /\ Len(sc_result.val) >= 1 /\ sc_result.val[1] = RspPc)
      => /\ response.tag = "Pc"
         /\ Len(sc_result.val) >= 6
              => LET b == sc_result.val IN
                 response.val = <<b[3] + 256 * b[4] + 65536 * b[5] + 16777216 * b[6]>>

\* the frame sent last
LastFrame == wire[Len(wire)]

\* the payload send_command was given for frame f (bytes 5.. of the frame)
FramePayload(f) == SubSeq(f, 6, Len(f))

\* C12: select_protocol(p) sends one Set command against the Config context,
\* Variant parameter, with a single data byte that is the variant value of p:
\* two calls asking for different protocols send different data bytes.
C12_VariantPerProtocol ==
    [][(op' = "select_protocol" /\ Len(wire') = Len(wire) + 1)
         => LET sent == FramePayload(wire'[Len(wire')]) IN
            /\ Len(sent) = 6
            /\ SubSeq(sent, 1, 5) = <<CmdSet, 0, ContextConfig, ParamVariant, 1>>
            /\ (op = "select_protocol" /\ result.kind = "Ok" /\ arg' # arg)
                 => sent[6] # FramePayload(LastFrame)[6]]_vars

\* C13: the frame send_command has just sent is 0x0E, 0x00, the counter's low
\* byte, its high byte, the sub-protocol id, then the caller's payload verbatim.
C13_FrameLayout ==
    pc = "polling"
      => LET f == LastFrame
             c == Command(op, step)
         IN  /\ Len(f) = 5 + Len(c.bytes)
             /\ f[1] = 14
             /\ f[2] = 0
             /\ f[3] = sequence_number % 256
             /\ f[4] = sequence_number \div 256
             /\ f[5] = c.sub
             /\ \A i \in 1..Len(c.bytes) : f[5 + i] = c.bytes[i]

\* C13 witness: halt's Stop command framed under a counter with a non-zero
\* high byte.
C13_Witness ==
    /\ pc = "polling" /\ op = "halt" /\ step = 1
    /\ sequence_number \div 256 > 0
    /\ LastFrame = <<14, 0, sequence_number % 256, sequence_number \div 256,
                     AVR8Generic, CmdStop, 0, 1>>

\* C14: a valid frame (any sub-protocol, any 16-bit sequence number, any
\* payload) is decoded by the receive side, and framing the result again
\* gives back the payload bytes of the frame.
C14_RoundTrip ==
    op = "decode"
      => /\ sc_result.kind = "Ok"
         /\ pc = "encoded" => FramePayload(wire[1]) = SubSeq(probe_frame, 5, Len(probe_frame))

\* C15: a discovery response that is not a list of known sub-protocol ids
\* gives an error value, never a list and never an abort: UnsupportedResponse
\* for another leading byte, UnknownEnumValue for an unknown id byte.
C15_DiscoveryErrors ==
    (op = "discover_protocols" /\ Len(sc_result.val) >= 1)
      => LET rsp == sc_result.val IN
         /\ rsp[1] # RspDiscoveryList => response.tag = "UnsupportedResponse"
         /\ (rsp[1] = RspDiscoveryList /\ ~KnownIds(rsp)) => response.tag = "UnknownEnumValue"

\* C16: parse_response never defaults: a Failed tag gives Failed(code) with the
\* code of bytes[2]; an unrecognised code or an unrecognised leading tag gives
\* a typed decode error, not another variant and not an abort.
C16_FailedAndUnknown ==
    (op = "parse_response" /\ Len(sc_result.val) >= 1)
      => LET b == sc_result.val IN
         /\ (b[1] = RspFailed /\ Len(b) >= 3 /\ b[3] \in Avr8GenericFailureCodes)
              => response = Rsp("Failed", <<b[3]>>)
         /\ (b[1] = RspFailed /\ Len(b) >= 3 /\ b[3] \notin Avr8GenericFailureCodes)
              => response.tag = "UnknownEnumValue"
         /\ b[1] \notin Avr8GenericResponses => response.tag = "UnknownEnumValue"

\* C17: avr8generic_set (called by select_protocol) returns Ok only when the
\* probe answered its Set command with a bare Success.
C17_SetNeedsSuccess ==
    (op = "select_protocol" /\ pc = "idle" /\ result.kind = "Ok")
      => sc_result = Ok(<<RspStatusOk>>)

\* C18: for every context, address and data, the payload avr8generic_set sends
\* is Set, 0x00, context, address, n, then data, with n the number of bytes in
\* data, also for 256 bytes and more.
C18_SetPayload ==
    op = "avr8generic_set"
      => FramePayload(wire[1])
           = <<CmdSet, 0, arg.context, arg.address, Len(arg.data)>> \o arg.data

\* C19: a report with fragment_info = 0 is discarded and the poll loop goes on,
\* however many came before; send_command returns only on a report with
\* non-zero fragment_info or on a transport error, and it does return when the
\* transport delivers one of the two.
C19_PollLoop ==
    /\ [][(pc = "polling" /\ empty_polls' # empty_polls)
            => /\ pc' = "polling"
               /\ UNCHANGED <<sequence_number, wire, acked, probe_frame, reports,
                              sc_result, response, result>>]_vars
    /\ [][(pc = "polling" /\ pc' # "polling")
            => (probe_frame' # <<>> \/ sc_result' = Err("Transport"))]_vars
    /\ (pc = "polling") ~> (pc # "polling")

\* C19 witness: an exchange that returned a payload after an empty report had
\* been discarded.
C19_Witness ==
    /\ pc = "idle"
    /\ empty_polls >= 1
    /\ sc_result.kind = "Ok"
    /\ acked[Len(acked)] = "ok"

\* C20: a transport error on sending or on a poll is what send_command
\* returns, with no retry: the step that returns it sends nothing and leaves
\* the counter alone, a poll loop never sends, no step sends more than one
\* frame, and after a failed poll the counter is still the number the frame
\* was sent under.
C20_NoRetry ==
    [][/\ (pc' # "polling" /\ sc_result'.kind = "Err")
            => /\ sc_result' = Err("Transport")
               /\ sequence_number' = sequence_number
               /\ wire' = wire
               /\ pc = "polling" => sequence_number' = FrameSeq(LastFrame)
       /\ pc = "polling" => wire' = wire
       /\ Len(wire') <= Len(wire) + 1]_vars

\* C20 witness: select_protocol returned the transport error of a failed poll;
\* its one frame is on the wire and the counter still has that frame's number.
C20_Witness ==
    /\ pc = "idle" /\ op = "select_protocol"
    /\ result = Err("Transport")
    /\ Len(wire) = 1
    /\ acked = <<"failed">>
    /\ sequence_number = FrameSeq(LastFrame)

\* C21: halt returns Ok only after both of its round trips completed, Stop
\* first and PcRead second, so that the counter has advanced by exactly 2 from
\* the number the Stop frame was sent under.
C21_HaltBothRoundTrips ==
    (op = "halt" /\ pc = "idle" /\ result.kind = "Ok")
      => /\ Len(wire) >= 2
         /\ FramePayload(wire[Len(wire) - 1]) = <<CmdStop, 0, 1>>
         /\ FramePayload(LastFrame) = <<CmdPcRead, 0>>
         /\ acked[Len(wire) - 1] = "ok"
         /\ acked[Len(wire)] = "ok"
         /\ sequence_number = (FrameSeq(wire[Len(wire) - 1]) + 2) % U16

\* C22: send_command returns a payload only from a response whose
\* sub-protocol id byte is the sub-protocol id of the request.
C22_SubProtocolMatches ==
    [][(AnswerTaken /\ sc_result'.kind = "Ok")
         => probe_frame'[4] = Command(op, step).sub]_vars

\* frame f carries the housekeeping command cmd
IsHousekeeping(f, cmd) == f[5] = Housekeeping /\ FramePayload(f) = <<cmd, 0>>

\* C23: on a probe made by new_from_selector, StartSession is never sent while
\* a session started before is still open: between a StartSession whose
\* exchange completed and any later StartSession there is an EndSession.
C23_OneSessionOpen ==
    \A i, j \in 1..Len(wire) :
        (/\ wire[1] = Packet(0, Discovery, <<0, 0, CmdQuery>>)
         /\ i < j
         /\ IsHousekeeping(wire[i], HousekeepingStartSession)
         /\ acked[i] = "ok"
         /\ IsHousekeeping(wire[j], HousekeepingStartSession))
          => \E k \in (i + 1)..(j - 1) : IsHousekeeping(wire[k], HousekeepingEndSession)

====
